---- MODULE Spec2Model ----
(***************************************************************************)
(* The "condition" match extension of xtables-addons (xt_condition.c):    *)
(* a per-namespace registry of reference-counted, named boolean           *)
(* condition variables, each exposed as a procfs node.                    *)
(*                                                                         *)
(* Rule-configuration threads run condition_mt_check (attach) and          *)
(* condition_mt_destroy (detach) step by step, serialised by proc_lock.    *)
(* An administrative thread reads and writes the procfs nodes without      *)
(* the lock; every read or write holds a use count on the node while its  *)
(* handler runs (procfs use_pde/unuse_pde), and removing a node waits for  *)
(* that count to drain.                                                    *)
(*                                                                         *)
(* The three module parameters that give new nodes their mode, owner and   *)
(* group stay at their defaults in Spec; PermSpec adds the writes to them. *)
(* FairSpec is Spec under the scheduling the kernel provides.              *)
(*                                                                         *)
(* The SYSRQ target (xt_SYSRQ.c) is a separate module of the repository:   *)
(* its password, its log-once flag and its packet handler sysrq_tg are     *)
(* modelled beside the registry and exercised by SysrqSpec.                *)
(***************************************************************************)
EXTENDS Integers, Sequences, FiniteSets, TLC

\* ------------------------------------------------------------------ bounds
NumRules == 2          \* rule-configuration threads (one match config each)
MaxVars == 2           \* slots of the allocator handing out condition_variable
MaxLen == 2            \* longest buffer handed to a write
MaxPayload == 3        \* longest UDP payload handed to sysrq_tg
MaxPassword == 2       \* longest password configured for SYSRQ

\* --------------------------------------------------------------- constants
NameSize == 32         \* sizeof(info->name): names of up to 31 bytes and the NUL
NULL == 0              \* the null pointer; also "mutex not held"

S_IRUGO == 292         \* 0444
S_IWUSR == 128         \* 0200

Rules == 1..NumRules
VarIds == 1..MaxVars

\* Names are the bytes of info->name before the terminating NUL.
ValidNames == { <<"a">>, <<"A">> }
LongName == [i \in 1..NameSize |-> "a"]
BadNames == { <<>>, <<".">>, <<".", ".">>, <<"a", "/">>, LongName }
Names == ValidNames \cup BadNames

\* Bytes an administrator may write, and the buffers built from them.
Bytes == { "0", "1", "X" }
Buffers == UNION { [1..n -> Bytes] : n \in 0..MaxLen }

\* The calls of write(): buffer, length, and whether get_user() can fetch the
\* first byte. Of a buffer that cannot be read only the length is known.
WriteCalls ==
    { [ buf |-> b, length |-> Len(b), readable |-> TRUE ] : b \in Buffers } \cup
    { [ buf |-> <<>>, length |-> n, readable |-> FALSE ] : n \in 1..MaxLen }

\* Values the three module parameters may be given: the defaults of lines
\* 51-53 and one other value each.
ListPerms == { S_IRUGO + S_IWUSR, S_IRUGO }
OwnerIds == { 0, 1000 }

\* xt_SYSRQ: the bytes of a payload (NUL among them) and the passwords, which
\* are C strings and so hold no NUL.
NUL == "\\0"
PayloadBytes == { "a", "b", NUL }
Payloads == UNION { [1..n -> PayloadBytes] : n \in 0..MaxPayload }
Passwords == UNION { [1..n -> PayloadBytes \ {NUL}] : n \in 0..MaxPassword }

VARIABLES
    sysrq_password,       \* xt_SYSRQ: the password, the bytes before the NUL
    sysrq_once,           \* xt_SYSRQ: "No password set" has been logged
    sysrq_ev,             \* xt_SYSRQ: the last call of sysrq_tg and what it did
    condition_list_perms, \* module parameter: mode of the nodes to be created
    condition_uid_perms,  \* module parameter: owner of the nodes to be created
    condition_gid_perms,  \* module parameter: group of the nodes to be created
    ns,                 \* lifecycle of the namespace: "new", "up", "failed", "down"
    proc_lock,          \* condition_net.proc_lock: the rule holding it, or NULL
    conditions_list,    \* condition_net.conditions_list: sequence of VarIds, head first
    proc_net_condition, \* condition_net.proc_net_condition: TRUE iff non-NULL
    heap,               \* VarIds -> condition_variable record, or Free
    dir,                \* nodes under /proc/net/nf_condition: name -> proc_dir_entry
    procroot,           \* nodes created directly under /proc (NULL parent): name -> data
    rule,               \* Rules -> state of the thread configuring that rule
    adm,                \* the administrative thread (one read or write at a time)
    ev,                 \* what the step just taken returned to its caller, if anything
    lastWrite,          \* history: VarIds -> value of the last recognised write since creation
    probe               \* history: registry snapshot taken when an attach starts alone

perm_vars == << condition_list_perms, condition_uid_perms, condition_gid_perms >>

sysrq_vars == << sysrq_password, sysrq_once, sysrq_ev >>

condition_vars == << ns, proc_lock, conditions_list, proc_net_condition, heap, dir,
                     procroot, rule, adm, ev, lastWrite, probe >>

vars == << sysrq_vars, perm_vars, ns, proc_lock, conditions_list, proc_net_condition, heap, dir,
           procroot, rule, adm, ev, lastWrite, probe >>

\* A condition_variable slot: alloc tells whether kmalloc() has handed it out.
Free == [ alloc |-> FALSE, name |-> <<>>, refcount |-> 0, enabled |-> FALSE ]

IdleRule == [ pc |-> "idle", name |-> <<>>, var |-> NULL, condvar |-> NULL, ret |-> "none" ]
IdleAdm == [ pc |-> "idle", node |-> <<>> ]
NoEv == [ op |-> "none" ]
NoProbe == [ rule |-> NULL, phase |-> "none", name |-> <<>>, view |-> <<>> ]
NoSysrq == [ op |-> "none" ]

\* ------------------------------------------------------------------ helpers

SeqToSet(s) == { s[i] : i \in 1..Len(s) }

\* A comparison whose sense is inverted ("if (strcmp(..))").
strcmp_inverted(s, t) == IF s = t THEN 1 ELSE 0

\* strcmp() on two NUL-terminated names: 0 iff they are byte-for-byte equal.
strcmp(s, t) == IF s = t THEN 0 ELSE 1

\* xt_check_proc_name(name, size): 0 when the name may be used as a procfs
\* file name, else an error.
xt_check_proc_name(name, size) ==
    IF Len(name) = 0 THEN "EINVAL"
    ELSE IF Len(name) >= size THEN "ENAMETOOLONG"
    ELSE IF name = <<".">> \/ name = <<".", ".">> \/ "/" \in SeqToSet(name) THEN "EINVAL"
    ELSE "0"

\* list_for_each_entry + strcmp: the first variable on the list carrying
\* this name, or NULL.
RECURSIVE FindVar(_, _, _)
FindVar(list, h, name) ==
    IF list = <<>> THEN NULL
    ELSE IF strcmp(name, h[Head(list)].name) = 0 THEN Head(list)
    ELSE FindVar(Tail(list), h, name)

\* kmalloc(): the slot handed out (lowest free), NULL when none is left.
FreeSlots(h) == { v \in VarIds : ~h[v].alloc }
kmalloc(h) == IF FreeSlots(h) = {} THEN NULL
              ELSE CHOOSE v \in FreeSlots(h) : \A w \in FreeSlots(h) : v <= w

\* A mutex_lock() that does not wait for the holder.
mutex_lock_unfenced(lock) == TRUE

\* mutex_lock(): returns only when no thread holds the mutex.
mutex_lock(lock) == lock = NULL

\* A return path that forgets the mutex_unlock().
mutex_unlock_forgotten(lock) == lock

\* mutex_unlock(): nobody holds the mutex.
mutex_unlock(lock) == NULL

\* An error path that forgets the kfree().
kfree_skipped(h, v) == h

\* kfree(var): the slot goes back to the allocator.
kfree(h, v) == [ h EXCEPT ![v] = Free ]

\* A detach that forgets the list_del().
list_del_forgotten(list, v) == list

\* list_del(): the list without this entry.
list_del(list, v) == SelectSeq(list, LAMBDA x : x # v)

\* list_add(): insertion right after the list head.
list_add(v, list) == <<v>> \o list

\* A hit that forgets to count the new reference.
get_ref_lost(cv) == cv

\* A hit that initialises the variable again.
get_ref_reinit(cv) == [ cv EXCEPT !.refcount = @ + 1, !.enabled = FALSE ]

\* A detach that forgets to drop its reference.
put_ref_lost(cv) == cv

\* var->refcount++ (line 165) and --var->refcount (line 208).
get_ref(cv) == [ cv EXCEPT !.refcount = @ + 1 ]
put_ref(cv) == [ cv EXCEPT !.refcount = @ - 1 ]

\* Lines 192-193: the fields of a new variable.
new_var(cv) == [ cv EXCEPT !.refcount = 1, !.enabled = FALSE ]

\* A check that hands the helper's own error code on.
name_errno_passthrough(rc) == rc

\* The value check_entry returns for the result of the name check (line 156).
name_errno(rc) == IF rc # "0" THEN "EINVAL" ELSE "0"

InUse(d) == { n \in DOMAIN d : d[n].inuse > 0 }

Without(f, k) == [ x \in DOMAIN f \ {k} |-> f[x] ]
With(f, k, val) == [ x \in DOMAIN f \cup {k} |-> IF x = k THEN val ELSE f[x] ]

\* proc_create_data(name, mode, parent, .., data): the parent with the new
\* node, which belongs to root until proc_set_user says otherwise.
proc_create_data(d, n, mode, data) ==
    With(d, n, [ data |-> data, inuse |-> 0, mode |-> mode, uid |-> 0, gid |-> 0 ])

\* A proc_set_user that hands every node of the directory to the new owner.
proc_set_user_all(d, n, uid, gid) == [ x \in DOMAIN d |-> [ d[x] EXCEPT !.uid = uid, !.gid = gid ] ]

\* proc_set_user(de, uid, gid): owner and group of that one node.
proc_set_user(d, n, uid, gid) == [ d EXCEPT ![n].uid = uid, ![n].gid = gid ]

\* A detach that leaves the node behind.
remove_proc_entry_skipped(d, n) == d

\* remove_proc_entry(name, parent): the parent without the node.
remove_proc_entry(d, n) == Without(d, n)

\* A teardown that leaves the directory and its nodes in place.
remove_proc_subtree_skipped(d) == d

\* remove_proc_subtree(dir_name, ..): the directory goes with every node
\* still in it.
remove_proc_subtree(d) == << >>

\* ------------------------------------------------------------ history

\* The snapshot compared by the attach/detach round trip: the registry as an
\* observer sees it (names, refcounts, enabled values, nodes).
RegistryView ==
    [ list  |-> conditions_list,
      cells |-> [ v \in SeqToSet(conditions_list) |->
                    [ name |-> heap[v].name, refcount |-> heap[v].refcount,
                      enabled |-> heap[v].enabled ] ],
      nodes |-> dir,
      root  |-> procroot ]

Quiescent == /\ \A r \in Rules : rule[r].pc \in {"idle", "attached"}
             /\ adm.pc = "idle"

\* A step of rule r keeps the probe only if r owns it; any other step drops it.
ProbeKeep(r) == probe' = IF probe.rule = r /\ probe.phase = "open" THEN probe ELSE NoProbe
ProbeDrop == probe' = NoProbe

\* A step that returns nothing to a caller.
Silent == ev' = NoEv

\* --------------------------------------------------------------------- Init

Init ==
    /\ sysrq_password = <<>>
    /\ sysrq_once = FALSE
    /\ sysrq_ev = NoSysrq
    /\ condition_list_perms = S_IRUGO + S_IWUSR
    /\ condition_uid_perms = 0
    /\ condition_gid_perms = 0
    /\ ns = "new"
    /\ proc_lock = NULL
    /\ conditions_list = <<>>
    /\ proc_net_condition = FALSE
    /\ heap = [ v \in VarIds |-> Free ]
    /\ dir = << >>
    /\ procroot = << >>
    /\ rule = [ r \in Rules |-> IdleRule ]
    /\ adm = IdleAdm
    /\ ev = NoEv
    /\ lastWrite = [ v \in VarIds |-> FALSE ]
    /\ probe = NoProbe

\* ------------------------------------------------- namespace init and exit

\* condition_net_init(): mutex_init, INIT_LIST_HEAD, proc_mkdir; -EACCES when
\* the directory cannot be made (the host then discards the namespace).
condition_net_init ==
    /\ ns = "new"
    /\ proc_lock' = NULL
    /\ conditions_list' = <<>>
    /\ \/ /\ proc_net_condition' = TRUE
          /\ ns' = "up"
       \/ /\ proc_net_condition' = FALSE
          /\ ns' = "failed"
    /\ ProbeDrop /\ Silent
    /\ UNCHANGED << sysrq_vars, perm_vars, heap, dir, procroot, rule, adm, lastWrite >>

\* condition_net_exit(): remove_proc_subtree() takes the directory and every
\* node left in it (waiting for handlers running on them), then the root
\* pointer is cleared. The list and the variables are not touched.
condition_net_exit ==
    /\ ns = "up"
    /\ InUse(dir) = {}
    /\ dir' = remove_proc_subtree(dir)
    /\ proc_net_condition' = FALSE
    /\ ns' = "down"
    /\ ProbeDrop /\ Silent
    /\ UNCHANGED << sysrq_vars, perm_vars, proc_lock, conditions_list, heap, procroot, rule, adm, lastWrite >>

\* ------------------------------------------------ condition_mt_check (attach)

\* Lines 151-157: the name check, before any lock is taken.
condition_mt_check_name(r, n) ==
    /\ ns \in {"up", "down"}
    /\ rule[r].pc = "idle"
    /\ IF xt_check_proc_name(n, NameSize) # "0"
       THEN /\ rule' = rule
            /\ ev' = [ op |-> "check", rule |-> r, name |-> n,
                       ret |-> name_errno(xt_check_proc_name(n, NameSize)) ]
            /\ ProbeDrop
       ELSE /\ rule' = [ rule EXCEPT ![r] = [ IdleRule EXCEPT !.name = n, !.pc = "lock" ] ]
            /\ probe' = IF Quiescent /\ proc_net_condition
                        THEN [ rule |-> r, phase |-> "open", name |-> n,
                               view |-> RegistryView ]
                        ELSE NoProbe
            /\ Silent
    /\ UNCHANGED << sysrq_vars, perm_vars, ns, proc_lock, conditions_list, proc_net_condition, heap, dir,
                    procroot, adm, lastWrite >>

\* Lines 162-170: mutex_lock, then the search of the list; a hit takes a
\* reference.
condition_mt_check_lock(r) ==
    /\ rule[r].pc = "lock"
    /\ mutex_lock(proc_lock)
    /\ proc_lock' = r
    /\ LET v == FindVar(conditions_list, heap, rule[r].name) IN
       IF v # NULL
       THEN /\ heap' = [ heap EXCEPT ![v] = get_ref(@) ]
            /\ rule' = [ rule EXCEPT ![r].pc = "unlock", ![r].var = v, ![r].ret = "0" ]
       ELSE /\ heap' = heap
            /\ rule' = [ rule EXCEPT ![r].pc = "alloc" ]
    /\ ProbeKeep(r) /\ Silent
    /\ UNCHANGED << sysrq_vars, perm_vars, ns, conditions_list, proc_net_condition, dir, procroot, adm, lastWrite >>

\* Lines 173-179: kmalloc (contents uninitialised) and the copy of the name.
condition_mt_check_alloc(r) ==
    /\ rule[r].pc = "alloc"
    /\ \/ /\ rule' = [ rule EXCEPT ![r].pc = "unlock", ![r].ret = "ENOMEM" ]
          /\ heap' = heap
       \/ /\ kmalloc(heap) # NULL
          /\ \E e \in BOOLEAN :
                heap' = [ heap EXCEPT ![kmalloc(heap)] =
                            [ alloc |-> TRUE, name |-> rule[r].name,
                              refcount |-> 0, enabled |-> e ] ]
          /\ rule' = [ rule EXCEPT ![r].pc = "create", ![r].var = kmalloc(heap) ]
    /\ ProbeKeep(r) /\ Silent
    /\ UNCHANGED << sysrq_vars, perm_vars, ns, proc_lock, conditions_list, proc_net_condition, dir,
                    procroot, adm, lastWrite >>

\* Lines 181-187: proc_create_data under proc_net_condition; a NULL parent
\* means /proc itself. A name already present in the parent, or a failed
\* allocation, gives NULL: the variable is freed.
condition_mt_check_create(r) ==
    /\ rule[r].pc = "create"
    /\ LET v == rule[r].var
           n == rule[r].name IN
       \/ /\ heap' = kfree(heap, v)
          /\ rule' = [ rule EXCEPT ![r].pc = "unlock", ![r].var = NULL, ![r].ret = "ENOMEM" ]
          /\ UNCHANGED << dir, procroot, lastWrite >>
       \/ /\ proc_net_condition
          /\ n \notin DOMAIN dir
          /\ dir' = proc_create_data(dir, n, condition_list_perms, v)
          /\ lastWrite' = [ lastWrite EXCEPT ![v] = FALSE ]
          /\ rule' = [ rule EXCEPT ![r].pc = "init" ]
          /\ UNCHANGED << heap, procroot >>
       \/ /\ ~proc_net_condition
          /\ n \notin DOMAIN procroot
          /\ procroot' = proc_create_data(procroot, n, condition_list_perms, v)
          /\ lastWrite' = [ lastWrite EXCEPT ![v] = FALSE ]
          /\ rule' = [ rule EXCEPT ![r].pc = "init" ]
          /\ UNCHANGED << heap, dir >>
    /\ ProbeKeep(r) /\ Silent
    /\ UNCHANGED << sysrq_vars, perm_vars, ns, proc_lock, conditions_list, proc_net_condition, adm >>

\* The node var->status_proc of the variable v named n, wherever it was
\* created, is still there.
HasNode(d, n, v) == n \in DOMAIN d /\ d[n].data = v

\* Lines 189-195: proc_set_user, refcount = 1, enabled = false, list_add. A
\* node that teardown has removed meanwhile is in no directory any more.
condition_mt_check_init(r) ==
    /\ rule[r].pc = "init"
    /\ LET v == rule[r].var
           n == rule[r].name IN
       /\ dir' = IF HasNode(dir, n, v)
                 THEN proc_set_user(dir, n, condition_uid_perms, condition_gid_perms)
                 ELSE dir
       /\ procroot' = IF HasNode(procroot, n, v)
                      THEN proc_set_user(procroot, n, condition_uid_perms, condition_gid_perms)
                      ELSE procroot
    /\ heap' = [ heap EXCEPT ![rule[r].var] = new_var(@) ]
    /\ conditions_list' = list_add(rule[r].var, conditions_list)
    /\ rule' = [ rule EXCEPT ![r].pc = "unlock", ![r].ret = "0" ]
    /\ ProbeKeep(r) /\ Silent
    /\ UNCHANGED << sysrq_vars, perm_vars, ns, proc_lock, proc_net_condition, adm, lastWrite >>

\* mutex_unlock and the return: on success info->condvar = var.
condition_mt_check_unlock(r) ==
    /\ rule[r].pc = "unlock"
    /\ proc_lock' = mutex_unlock(proc_lock)
    /\ rule' = [ rule EXCEPT ![r] =
                   IF rule[r].ret = "0"
                   THEN [ @ EXCEPT !.pc = "attached", !.condvar = rule[r].var, !.var = NULL ]
                   ELSE IdleRule ]
    /\ ev' = [ op |-> "check", rule |-> r, name |-> rule[r].name, ret |-> rule[r].ret ]
    /\ probe' = IF probe.rule = r /\ probe.phase = "open"
                THEN IF rule[r].ret = "0" THEN probe ELSE [ probe EXCEPT !.phase = "failed" ]
                ELSE NoProbe
    /\ UNCHANGED << sysrq_vars, perm_vars, ns, conditions_list, proc_net_condition, heap, dir, procroot,
                    adm, lastWrite >>

\* --------------------------------------------- condition_mt_destroy (detach)

\* Lines 207-209: mutex_lock, --refcount, list_del when it reached 0.
condition_mt_destroy_lock(r) ==
    /\ rule[r].pc = "attached"
    /\ mutex_lock(proc_lock)
    /\ proc_lock' = r
    /\ LET v == rule[r].condvar IN
       /\ heap' = [ heap EXCEPT ![v] = put_ref(@) ]
       /\ IF put_ref(heap[v]).refcount = 0
          THEN /\ conditions_list' = list_del(conditions_list, v)
               /\ rule' = [ rule EXCEPT ![r].pc = "remove", ![r].var = v ]
          ELSE /\ conditions_list' = conditions_list
               /\ rule' = [ rule EXCEPT ![r].pc = "dunlock", ![r].var = v ]
    /\ ProbeKeep(r) /\ Silent
    /\ UNCHANGED << sysrq_vars, perm_vars, ns, proc_net_condition, dir, procroot, adm, lastWrite >>

\* Lines 210-211: remove_proc_entry under the root, if the root still exists;
\* it returns once no handler runs on the node.
condition_mt_destroy_remove(r) ==
    /\ rule[r].pc = "remove"
    /\ LET n == heap[rule[r].var].name IN
       IF proc_net_condition /\ n \in DOMAIN dir
       THEN /\ dir[n].inuse = 0
            /\ dir' = remove_proc_entry(dir, n)
       ELSE dir' = dir
    /\ rule' = [ rule EXCEPT ![r].pc = "free" ]
    /\ ProbeKeep(r) /\ Silent
    /\ UNCHANGED << sysrq_vars, perm_vars, ns, proc_lock, conditions_list, proc_net_condition, heap,
                    procroot, adm, lastWrite >>

\* Line 212: kfree(var).
condition_mt_destroy_free(r) ==
    /\ rule[r].pc = "free"
    /\ heap' = kfree(heap, rule[r].var)
    /\ lastWrite' = [ lastWrite EXCEPT ![rule[r].var] = FALSE ]
    /\ rule' = [ rule EXCEPT ![r].pc = "dunlock" ]
    /\ ProbeKeep(r) /\ Silent
    /\ UNCHANGED << sysrq_vars, perm_vars, ns, proc_lock, conditions_list, proc_net_condition, dir,
                    procroot, adm >>

\* Line 214: mutex_unlock; the rule is gone.
condition_mt_destroy_unlock(r) ==
    /\ rule[r].pc = "dunlock"
    /\ proc_lock' = mutex_unlock(proc_lock)
    /\ rule' = [ rule EXCEPT ![r] = IdleRule ]
    /\ probe' = IF probe.rule = r /\ probe.phase = "open"
                THEN [ probe EXCEPT !.phase = "closed" ] ELSE NoProbe
    /\ ev' = [ op |-> "destroy", rule |-> r ]
    /\ UNCHANGED << sysrq_vars, perm_vars, ns, conditions_list, proc_net_condition, heap, dir, procroot,
                    adm, lastWrite >>

\* ------------------------------------------------------ condition_mt (match)

\* Line 142: var->enabled ^ info->invert.
condition_mt_value(enabled, invert) == enabled # invert

condition_mt(r, invert) ==
    /\ rule[r].pc = "attached"
    /\ ev' = [ op |-> "mt", rule |-> r, invert |-> invert,
               result |-> condition_mt_value(heap[rule[r].condvar].enabled, invert) ]
    /\ ProbeDrop
    /\ UNCHANGED << sysrq_vars, perm_vars, ns, proc_lock, conditions_list, proc_net_condition, heap, dir,
                    procroot, rule, adm, lastWrite >>

\* ------------------------------------------------- the procfs node handlers

\* condition_proc_show(): the text a read returns.
condition_proc_show(enabled) == IF enabled THEN "1\n" ELSE "0\n"

\* A parser that takes every first byte other than '0' as "on".
condition_proc_write_nonzero(enabled, buf, length, readable) ==
    IF length > 0
    THEN IF ~readable
         THEN [ enabled |-> enabled, err |-> "EFAULT", count |-> 0 ]
         ELSE [ enabled |-> (buf[1] # "0"), err |-> "", count |-> length ]
    ELSE [ enabled |-> enabled, err |-> "", count |-> length ]

\* A write that reports only the one byte it looked at.
condition_proc_write_one(enabled, buf, length, readable) ==
    IF length > 0
    THEN IF ~readable
         THEN [ enabled |-> enabled, err |-> "EFAULT", count |-> 0 ]
         ELSE [ enabled |-> IF buf[1] = "0" THEN FALSE
                            ELSE IF buf[1] = "1" THEN TRUE
                            ELSE enabled,
                err |-> "", count |-> 1 ]
    ELSE [ enabled |-> enabled, err |-> "", count |-> 0 ]

\* condition_proc_write(): the new value of enabled and the return value
\* (err, or the count of bytes consumed) for a buffer of this length whose
\* first byte get_user() can or cannot fetch.
condition_proc_write(enabled, buf, length, readable) ==
    IF length > 0
    THEN IF ~readable
         THEN [ enabled |-> enabled, err |-> "EFAULT", count |-> 0 ]
         ELSE [ enabled |-> IF buf[1] = "0" THEN FALSE
                            ELSE IF buf[1] = "1" THEN TRUE
                            ELSE enabled,
                err |-> "", count |-> length ]
    ELSE [ enabled |-> enabled, err |-> "", count |-> length ]

\* A read or write system call reaches the node: procfs pins it for the
\* duration of the handler. A removed node cannot be entered.
proc_reg_enter(n, op) ==
    /\ adm.pc = "idle"
    /\ n \in DOMAIN dir
    /\ dir' = [ dir EXCEPT ![n].inuse = @ + 1 ]
    /\ adm' = [ IdleAdm EXCEPT !.pc = op, !.node = n ]
    /\ ProbeDrop /\ Silent
    /\ UNCHANGED << sysrq_vars, perm_vars, ns, proc_lock, conditions_list, proc_net_condition, heap,
                    procroot, rule, lastWrite >>

proc_read ==
    /\ adm.pc = "show"
    /\ adm' = [ adm EXCEPT !.pc = "done" ]
    /\ ev' = [ op |-> "show", node |-> adm.node,
               out |-> condition_proc_show(heap[dir[adm.node].data].enabled) ]
    /\ ProbeDrop
    /\ UNCHANGED << sysrq_vars, perm_vars, ns, proc_lock, conditions_list, proc_net_condition, heap, dir,
                    procroot, rule, lastWrite >>

Recognised(buf, length, readable) == length > 0 /\ readable /\ buf[1] \in {"0", "1"}

proc_write(buf, length, readable) ==
    /\ adm.pc = "write"
    /\ LET v == dir[adm.node].data
           w == condition_proc_write(heap[v].enabled, buf, length, readable) IN
       /\ heap' = [ heap EXCEPT ![v].enabled = w.enabled ]
       /\ adm' = [ adm EXCEPT !.pc = "done" ]
       /\ ev' = [ op |-> "write", node |-> adm.node, buf |-> buf, length |-> length,
                  readable |-> readable,
                  before |-> heap[v].enabled, err |-> w.err, count |-> w.count ]
       /\ lastWrite' = IF Recognised(buf, length, readable)
                       THEN [ lastWrite EXCEPT ![v] = (buf[1] = "1") ]
                       ELSE lastWrite
    /\ ProbeDrop
    /\ UNCHANGED << sysrq_vars, perm_vars, ns, proc_lock, conditions_list, proc_net_condition, dir,
                    procroot, rule >>

\* The handler has returned: procfs unpins the node.
proc_reg_leave ==
    /\ adm.pc = "done"
    /\ dir' = [ dir EXCEPT ![adm.node].inuse = @ - 1 ]
    /\ adm' = IdleAdm
    /\ ProbeDrop /\ Silent
    /\ UNCHANGED << sysrq_vars, perm_vars, ns, proc_lock, conditions_list, proc_net_condition, heap,
                    procroot, rule, lastWrite >>

\* ------------------------------------------------------ module parameters

\* module_param(.., uint, S_IRUSR | S_IWUSR): root rewrites one of the three
\* parameters through /sys/module/xt_condition/parameters while the module is
\* loaded.
param_set_uint(p, val) ==
    /\ \/ p = "condition_list_perms" /\ val \in ListPerms
       \/ p \in { "condition_uid_perms", "condition_gid_perms" } /\ val \in OwnerIds
    /\ condition_list_perms' = IF p = "condition_list_perms" THEN val ELSE condition_list_perms
    /\ condition_uid_perms' = IF p = "condition_uid_perms" THEN val ELSE condition_uid_perms
    /\ condition_gid_perms' = IF p = "condition_gid_perms" THEN val ELSE condition_gid_perms
    /\ ProbeDrop /\ Silent
    /\ UNCHANGED << sysrq_vars, ns, proc_lock, conditions_list, proc_net_condition,
                    heap, dir, procroot, rule, adm, lastWrite >>

\* ------------------------------------------------------------------ xt_SYSRQ

\* The byte at offset i (from 0) of the NUL-terminated string s.
CharAt(s, i) == IF i < Len(s) THEN s[i + 1] ELSE NUL

\* strncmp(&data[1], password, n): 0 when the first n bytes agree or the
\* strings agree up to and including a NUL within them, nonzero otherwise.
\* The caller passes n = len - 1, so only bytes of the payload are read.
RECURSIVE strncmp_from(_, _, _, _)
strncmp_from(data, password, n, i) ==
    IF i >= n THEN 0
    ELSE IF data[i + 2] # CharAt(password, i) THEN 1
    ELSE IF data[i + 2] = NUL THEN 0
    ELSE strncmp_from(data, password, n, i + 1)

strncmp(data, password, n) == strncmp_from(data, password, n, 0)

\* sysrq_tg(pdata, len): the verdict, the key handed to handle_sysrq (or
\* "none") and the new value of sysrq_once.
sysrq_tg(password, once, data, len) ==
    IF CharAt(password, 0) = NUL
    THEN [ verdict |-> "NF_DROP", key |-> "none", once |-> TRUE ]
    ELSE IF len = 0
    THEN [ verdict |-> "NF_DROP", key |-> "none", once |-> once ]
    ELSE IF strncmp(data, password, len - 1) # 0
    THEN [ verdict |-> "NF_DROP", key |-> "none", once |-> once ]
    ELSE [ verdict |-> "NF_ACCEPT", key |-> data[1], once |-> once ]

\* A packet reaches the SYSRQ target.
sysrq_tg_call(data) ==
    /\ LET t == sysrq_tg(sysrq_password, sysrq_once, data, Len(data)) IN
       /\ sysrq_once' = t.once
       /\ sysrq_ev' = [ op |-> "sysrq_tg", data |-> data, len |-> Len(data),
                        verdict |-> t.verdict, key |-> t.key ]
    /\ UNCHANGED << sysrq_password, perm_vars, condition_vars >>

\* module_param_string(password, ..): the password is set at load or
\* rewritten through sysfs.
param_set_copystring(pw) ==
    /\ sysrq_password' = pw
    /\ sysrq_ev' = NoSysrq
    /\ UNCHANGED << sysrq_once, perm_vars, condition_vars >>

SysrqNext ==
    \/ \E pw \in Passwords : param_set_copystring(pw)
    \/ \E d \in Payloads : sysrq_tg_call(d)

SysrqSpec == Init /\ [][SysrqNext]_vars

\* ---------------------------------------------------------------- the system

Next ==
    \/ condition_net_init
    \/ \E r \in Rules : \E n \in Names : condition_mt_check_name(r, n)
    \/ \E r \in Rules : condition_mt_check_lock(r)
    \/ \E r \in Rules : condition_mt_check_alloc(r)
    \/ \E r \in Rules : condition_mt_check_create(r)
    \/ \E r \in Rules : condition_mt_check_init(r)
    \/ \E r \in Rules : condition_mt_check_unlock(r)
    \/ \E r \in Rules : condition_mt_destroy_lock(r)
    \/ \E r \in Rules : condition_mt_destroy_remove(r)
    \/ \E r \in Rules : condition_mt_destroy_free(r)
    \/ \E r \in Rules : condition_mt_destroy_unlock(r)
    \/ \E r \in Rules : \E i \in BOOLEAN : condition_mt(r, i)
    \/ \E n \in ValidNames : \E op \in {"show", "write"} : proc_reg_enter(n, op)
    \/ proc_read
    \/ \E c \in WriteCalls : proc_write(c.buf, c.length, c.readable)
    \/ proc_reg_leave
    \/ condition_net_exit

Spec == Init /\ [][Next]_vars

\* Scheduling. A thread that can take its next step inside condition_mt_check
\* or condition_mt_destroy takes it (no step there blocks except the two
\* below). mutex_lock is granted to every waiter in turn, and
\* remove_proc_entry, which shuts the node against new readers and writers
\* before it waits, returns once the handlers in flight have left: both are
\* strong fairness. A read or write handler that has started runs to its end.
Fairness ==
    /\ \A r \in Rules :
          /\ SF_vars(condition_mt_check_lock(r))
          /\ WF_vars(condition_mt_check_alloc(r))
          /\ WF_vars(condition_mt_check_create(r))
          /\ WF_vars(condition_mt_check_init(r))
          /\ WF_vars(condition_mt_check_unlock(r))
          /\ SF_vars(condition_mt_destroy_remove(r))
          /\ WF_vars(condition_mt_destroy_free(r))
          /\ WF_vars(condition_mt_destroy_unlock(r))
    /\ WF_vars(proc_read)
    /\ WF_vars(\E c \in WriteCalls : proc_write(c.buf, c.length, c.readable))
    /\ WF_vars(proc_reg_leave)

FairSpec == Spec /\ Fairness

\* The rule-configuration threads of a live namespace together with writes
\* to the module parameters. The node handlers and the packet path, which
\* neither read nor write a permission, and the teardown, which only removes
\* nodes, are left out.
PermNext ==
    \/ condition_net_init
    \/ \E r \in Rules : \E n \in ValidNames : condition_mt_check_name(r, n)
    \/ \E r \in Rules : condition_mt_check_lock(r)
    \/ \E r \in Rules : condition_mt_check_alloc(r)
    \/ \E r \in Rules : condition_mt_check_create(r)
    \/ \E r \in Rules : condition_mt_check_init(r)
    \/ \E r \in Rules : condition_mt_check_unlock(r)
    \/ \E r \in Rules : condition_mt_destroy_lock(r)
    \/ \E r \in Rules : condition_mt_destroy_remove(r)
    \/ \E r \in Rules : condition_mt_destroy_free(r)
    \/ \E r \in Rules : condition_mt_destroy_unlock(r)
    \/ \E p \in { "condition_list_perms", "condition_uid_perms", "condition_gid_perms" } :
          \E val \in ListPerms \cup OwnerIds : param_set_uint(p, val)

PermSpec == Init /\ [][PermNext]_vars

\* ==================================================================== claims

InList(v) == v \in SeqToSet(conditions_list)

\* Rule r holds a reference on variable v: condition_mt_check has taken it
\* (and is about to return it, or has stored it in info->condvar) and
\* condition_mt_destroy has not yet dropped it.
Holds(r, v) ==
    \/ rule[r].pc = "attached" /\ rule[r].condvar = v
    \/ rule[r].pc = "unlock" /\ rule[r].ret = "0" /\ rule[r].var = v

Refs(v) == Cardinality({ r \in Rules : Holds(r, v) })

\* The detach of rule r drops the last reference on its variable in this step.
LastPut(r) ==
    /\ rule[r].pc = "attached"
    /\ rule'[r].pc # "attached"
    /\ heap[rule[r].condvar].refcount = 1

C1_Counts ==
    /\ \A v \in VarIds : InList(v) =>
          /\ heap[v].alloc
          /\ heap[v].refcount >= 1
          /\ heap[v].refcount = Refs(v)
    /\ \A r \in Rules : \A v \in VarIds : Holds(r, v) => InList(v)

\* C1: every listed variable has refcount >= 1 equal to the number of
\* attached handles on it, every attached handle points into the list, and a
\* variable leaves the list in exactly the detach step that takes its
\* refcount from 1 to 0: no other step takes a variable off the list, and
\* that step always does.
C1_RefcountMatchesHandles ==
    /\ C1_Counts
    /\ [][ /\ UNCHANGED << heap, conditions_list, rule >> \/ C1_Counts'
           /\ \A v \in SeqToSet(conditions_list) :
                 ~InList(v)' => \E r \in Rules : LastPut(r) /\ rule[r].condvar = v
           /\ \A r \in Rules :
                 LastPut(r) => InList(rule[r].condvar) /\ ~InList(rule[r].condvar)' ]_vars

\* C1 witness: a detach has just dropped a variable to zero and taken it off
\* the list while another variable, still referenced, stays listed.
C1_Witness ==
    /\ \E r \in Rules : rule[r].pc = "remove" /\ ~InList(rule[r].var)
                        /\ heap[rule[r].var].refcount = 0
    /\ \E v \in VarIds : InList(v) /\ heap[v].refcount = 1

\* C2: no two variables on the list carry the same name (byte-for-byte).
C2_UniqueNames ==
    \A i, j \in 1..Len(conditions_list) :
        i # j => heap[conditions_list[i]].name # heap[conditions_list[j]].name

\* C2 witness: two variables whose names differ only in case are listed side
\* by side.
C2_Witness ==
    /\ Len(conditions_list) = 2
    /\ { heap[conditions_list[i]].name : i \in 1..2 } = { <<"a">>, <<"A">> }

AllAttached(n) == \A r \in Rules : rule[r].pc = "attached" /\ rule[r].name = n

Positions(n) == { i \in 1..Len(conditions_list) : heap[conditions_list[i]].name = n }

\* C3: when every thread has attached the same name to a namespace whose root
\* exists, the list holds exactly one variable of that name, its refcount is
\* the number of threads, every thread's handle is that variable, and the one
\* node of that name belongs to it.
C3_ConcurrentAttachShares ==
    \A n \in ValidNames :
        (AllAttached(n) /\ proc_net_condition) =>
            /\ Cardinality(Positions(n)) = 1
            /\ \A i \in Positions(n) :
                  /\ heap[conditions_list[i]].refcount = NumRules
                  /\ \A r \in Rules : rule[r].condvar = conditions_list[i]
                  /\ n \in DOMAIN dir
                  /\ dir[n].data = conditions_list[i]

\* C3 witness: all threads hold a handle on "a" in a live namespace.
C3_Witness == AllAttached(<<"a">>) /\ proc_net_condition /\ proc_lock = NULL

Listed(n) == \E v \in VarIds : InList(v) /\ heap[v].name = n

\* C4 as stated: with the lock free, a name is listed iff its node exists
\* under the root, also after teardown.
C4_Original ==
    proc_lock = NULL => \A n \in ValidNames : Listed(n) <=> n \in DOMAIN dir

\* C4 as amended: with the lock free and the root directory in place, a name
\* is listed iff its node exists under the root, and the node belongs to the
\* listed variable; once the root is gone no node is left under it (the
\* variables still referenced stay listed).
C4_NodeIffListedWhileRoot ==
    /\ (proc_lock = NULL /\ proc_net_condition) =>
          \A n \in ValidNames :
              /\ Listed(n) <=> n \in DOMAIN dir
              /\ n \in DOMAIN dir =>
                    InList(dir[n].data) /\ heap[dir[n].data].name = n
    /\ ~proc_net_condition => dir = << >>

\* C4 witness: a detach has returned in a live namespace, leaving one
\* variable and its node.
C4_Witness ==
    /\ proc_net_condition /\ proc_lock = NULL
    /\ ev.op = "destroy"
    /\ Len(conditions_list) = 1
    /\ DOMAIN dir = { heap[conditions_list[1]].name }

\* C5: a successful attach immediately followed by the detach of its handle,
\* with nothing else running, leaves the registry as it found it: the same
\* list, the same refcount and enabled value of every variable, the same
\* nodes.
C5_AttachDetachRestores ==
    probe.phase = "closed" => RegistryView = probe.view

\* C5 witness: the round trip created and destroyed a variable of a new name
\* beside a variable that was already there.
C5_Witness ==
    /\ probe.phase = "closed"
    /\ Len(probe.view.list) = 1
    /\ probe.view.cells[probe.view.list[1]].name # probe.name

\* The attach of rule r finds its name on the list in this step.
FoundStep(r) == rule[r].pc = "lock" /\ rule'[r].pc = "unlock"

\* The detach of rule r leaves other references in this step.
PutStep(r) == rule[r].pc = "attached" /\ rule'[r].pc = "dunlock"

\* The step changes the refcount of v by d and nothing else of the registry;
\* v stays listed and, while the root exists, keeps its node.
OnlyRefcount(v, d) ==
    /\ heap' = [ heap EXCEPT ![v].refcount = @ + d ]
    /\ UNCHANGED << conditions_list, dir, procroot, proc_net_condition >>
    /\ InList(v)'
    /\ heap'[v].refcount >= 1
    /\ proc_net_condition =>
          heap[v].name \in DOMAIN dir' /\ dir'[heap[v].name].data = v

\* C6: an attach that finds its name, and a detach that leaves the refcount
\* positive, change that variable's refcount by one and nothing else: list,
\* nodes, enabled and every other variable stay as they are; the steps that
\* then release the lock change nothing of the registry.
C6_SharedAttachDetachFrame ==
    [][ \A r \in Rules :
          /\ FoundStep(r) =>
                \E v \in VarIds :
                    /\ rule'[r].var = v
                    /\ heap[v].name = rule[r].name
                    /\ InList(v)
                    /\ OnlyRefcount(v, 1)
          /\ PutStep(r) =>
                \E v \in VarIds : rule[r].condvar = v /\ OnlyRefcount(v, -1)
          /\ (rule[r].pc \in {"unlock", "dunlock"} /\ rule'[r].pc # rule[r].pc) =>
                UNCHANGED << heap, conditions_list, dir, procroot >> ]_vars

\* C6 witness: of two handles on one variable, one has just been dropped:
\* refcount 1, the variable listed, its node in place, its value still on.
C6_Witness ==
    \E r \in Rules :
        /\ rule[r].pc = "dunlock"
        /\ InList(rule[r].var)
        /\ heap[rule[r].var].refcount = 1
        /\ heap[rule[r].var].enabled
        /\ heap[rule[r].var].name \in DOMAIN dir

\* The administrative thread's write handler runs in this step.
WriteStep == adm.pc = "write" /\ adm'.pc = "done"

\* The first byte a write gets to see, "" when there is none.
FirstByte(buf, length, readable) == IF length > 0 /\ readable THEN buf[1] ELSE ""

\* C7: a write decides on the first byte alone: '0' clears enabled, '1' sets
\* it, anything else (or no byte) leaves it; the bytes that follow play no
\* part, and nothing but that one enabled value changes.
C7_WriteFirstByte ==
    [][ WriteStep =>
          LET v == dir[adm.node].data
              first == FirstByte(ev'.buf, ev'.length, ev'.readable) IN
          /\ ev'.op = "write"
          /\ heap' = [ heap EXCEPT ![v].enabled =
                          IF first = "0" THEN FALSE
                          ELSE IF first = "1" THEN TRUE
                          ELSE @ ]
          /\ UNCHANGED << conditions_list, dir, procroot, proc_lock, rule,
                          proc_net_condition >> ]_vars

\* C7 witness: a write of "10" has turned a variable on.
C7_Witness ==
    /\ ev.op = "write"
    /\ ev.readable
    /\ ev.buf = <<"1", "0">>
    /\ ~ev.before
    /\ heap[dir[ev.node].data].enabled

\* C8 as stated: every write returns the full length and never an error.
C8_Original ==
    ev.op = "write" => (ev.err = "" /\ ev.count = ev.length)

\* C8 as amended: a write of no bytes, or one whose first byte can be fetched,
\* returns the full length whatever the content; a write whose first byte
\* cannot be fetched returns -EFAULT and leaves enabled as it was.
C8_WriteReturnsLengthOrEfault ==
    ev.op = "write" =>
        IF ev.length > 0 /\ ~ev.readable
        THEN ev.err = "EFAULT" /\ heap[dir[ev.node].data].enabled = ev.before
        ELSE ev.err = "" /\ ev.count = ev.length

\* C8 witness: a write of unrecognised content "X1" returned 2.
C8_Witness ==
    /\ ev.op = "write"
    /\ ev.readable
    /\ ev.buf = <<"X", "1">>
    /\ ev.count = 2
    /\ ev.err = ""

\* C9 as stated: for every attached handle, enabled is what the last
\* recognised write since the variable's creation set (false if none), a
\* packet evaluation returns that value XOR invert, and a read returns the
\* matching text.
C9_EnabledIsLastWrite ==
    /\ \A r \in Rules : rule[r].pc = "attached" =>
          heap[rule[r].condvar].enabled = lastWrite[rule[r].condvar]
    /\ ev.op = "mt" =>
          ev.result = (lastWrite[rule[ev.rule].condvar] # ev.invert)
    /\ (ev.op = "show" /\ \E r \in Rules : Holds(r, dir[ev.node].data)
                                          /\ rule[r].pc = "attached") =>
          ev.out = IF lastWrite[dir[ev.node].data] THEN "1\n" ELSE "0\n"

\* The names the check is to refuse.
Rejected(n) ==
    \/ Len(n) = 0
    \/ Len(n) >= NameSize
    \/ "/" \in SeqToSet(n)
    \/ n = <<".">>
    \/ n = <<".", ".">>

\* C10: an attach with a refused name returns -EINVAL from the name check: it
\* never reaches the lock, and list, variables, nodes and lock are untouched.
C10_InvalidNameRejected ==
    /\ \A r \in Rules : rule[r].pc # "idle" => ~Rejected(rule[r].name)
    /\ [][ \A r \in Rules :
             /\ (rule[r].pc = "idle" /\ rule'[r].pc = "lock") => ~Rejected(rule'[r].name)
             /\ (rule[r].pc = "idle" /\ ev'.op = "check" /\ ev'.rule = r) =>
                   /\ Rejected(ev'.name)
                   /\ ev'.ret = "EINVAL"
                   /\ UNCHANGED << proc_lock, conditions_list, heap, dir, procroot,
                                   rule, proc_net_condition >> ]_vars

\* C10 witness: a name of NameSize bytes was refused while a variable was
\* listed.
C10_Witness ==
    /\ ev.op = "check"
    /\ ev.name = LongName
    /\ ev.ret = "EINVAL"
    /\ Len(conditions_list) = 1

\* Every allocated variable is on the list or in the hands of the attach or
\* detach that is creating or destroying it.
NoOrphan ==
    \A v \in VarIds : heap[v].alloc =>
        \/ InList(v)
        \/ \E r \in Rules : rule[r].var = v /\ rule[r].pc \in {"create", "init", "remove", "free"}

\* The attach of rule r takes a failure path in this step: kmalloc or
\* proc_create_data returned NULL.
FailStep(r) ==
    /\ rule[r].pc \in {"alloc", "create"}
    /\ rule'[r].pc = "unlock"

\* C11: an attach that has to create a variable and fails in kmalloc or in
\* proc_create_data returns -ENOMEM with the lock released and no handle
\* stored; the failing step and the unlock leave list, listed variables and
\* nodes as they are and hand the allocation back, and an attach that ran
\* alone leaves list, refcounts, enabled values and nodes as recorded before
\* the call.
C11_FailedCreateLeavesNoTrace ==
    /\ []((ev.op = "check" /\ ev.ret = "ENOMEM") =>
             /\ proc_lock = NULL
             /\ rule[ev.rule] = IdleRule
             /\ NoOrphan)
    /\ [](probe.phase = "failed" => RegistryView = probe.view)
    /\ [][ \A r \in Rules :
             /\ FailStep(r) =>
                   /\ rule'[r].ret = "ENOMEM"
                   /\ rule'[r].var = NULL
                   /\ rule'[r].condvar = NULL
                   /\ UNCHANGED << conditions_list, dir, procroot >>
                   /\ \A v \in VarIds : InList(v) => heap'[v] = heap[v]
                   /\ FreeSlots(heap) \subseteq FreeSlots(heap')
             /\ (rule[r].pc = "unlock" /\ rule[r].ret = "ENOMEM" /\ rule'[r].pc # "unlock") =>
                   /\ ev'.op = "check" /\ ev'.ret = "ENOMEM"
                   /\ UNCHANGED << conditions_list, heap, dir, procroot >> ]_vars

\* C11 witness: an attach of a new name beside a listed variable has failed
\* and returned, with a slot still free for it (so either cause is open).
C11_Witness ==
    /\ probe.phase = "failed"
    /\ ev.op = "check" /\ ev.ret = "ENOMEM"
    /\ Len(conditions_list) = 1
    /\ heap[conditions_list[1]].name # ev.name
    /\ FreeSlots(heap) # {}

\* The positions of condition_mt_check after the name check.
AttachPcs == { "lock", "alloc", "create", "init", "unlock" }

\* C12 as stated: while the root directory does not exist, no step of an
\* attach adds to the list, changes a refcount or creates a node under the
\* root or anywhere else, and no attach ends with a handle.
C12_NoAttachWithoutRoot ==
    [][ \A r \in Rules :
          (~proc_net_condition /\ rule[r].pc \in AttachPcs /\ rule'[r] # rule[r]) =>
              /\ UNCHANGED << conditions_list, dir, procroot >>
              /\ \A v \in VarIds : heap'[v].refcount = heap[v].refcount
              /\ rule'[r].pc # "attached" ]_vars

\* Rule r is between mutex_lock and mutex_unlock.
InCS(r) == rule[r].pc \in { "alloc", "create", "init", "unlock", "remove", "free", "dunlock" }

\* The step inserts into or removes from the list, changes a refcount, or
\* (being a step of attach or detach, not of the namespace) creates or
\* destroys a node.
Mutation ==
    \/ conditions_list' # conditions_list
    \/ \E v \in VarIds : heap'[v].refcount # heap[v].refcount
    \/ ns' = ns /\ (DOMAIN dir' # DOMAIN dir \/ DOMAIN procroot' # DOMAIN procroot)

\* C13: a thread is between mutex_lock and mutex_unlock exactly when it is
\* the holder of proc_lock, so at most one thread is; and every step that
\* changes the list, a refcount or the set of nodes is taken by the thread
\* that holds the lock when the step ends, no other thread having held it
\* when the step began.
C13_MutationsUnderLock ==
    /\ [](\A r \in Rules : InCS(r) <=> proc_lock = r)
    /\ [][ (~UNCHANGED << conditions_list, heap, dir, procroot >> /\ Mutation) =>
             \E r \in Rules :
                 /\ rule'[r] # rule[r]
                 /\ proc_lock' = r
                 /\ proc_lock \in { NULL, r }
                 /\ \A q \in Rules \ {r} : ~InCS(q) /\ rule'[q] = rule[q] ]_vars

\* C13 witness: one thread has put a new variable on the list and still
\* holds the lock while the other waits in mutex_lock.
C13_Witness ==
    \E r, q \in Rules :
        /\ r # q
        /\ proc_lock = r
        /\ rule[r].pc = "unlock" /\ rule[r].ret = "0" /\ InList(rule[r].var)
        /\ heap[rule[r].var].refcount = 1
        /\ rule[q].pc = "lock"

\* The node n of parent d still has its variable: the storage its data
\* pointer refers to is allocated and carries the node's name.
NodeBacked(d, n) == heap[d[n].data].alloc /\ heap[d[n].data].name = n

\* A read or write handler is running on behalf of the administrator.
InFlight == adm.pc \in { "show", "write", "done" }

\* The part of C14 that concerns the nodes under the root directory: a
\* handler in flight pins a node that is there and backed, and every node
\* under the root is backed.
C14_UnderRoot ==
    /\ InFlight => (adm.node \in DOMAIN dir /\ dir[adm.node].inuse > 0)
    /\ \A n \in DOMAIN dir : NodeBacked(dir, n)

\* C14 as stated: a handler in flight works on a node whose variable has not
\* been freed, and no node on which a read or write could begin (under the
\* root directory or anywhere else in procfs) outlives its variable.
C14_NoAccessAfterFree ==
    /\ C14_UnderRoot
    /\ \A n \in DOMAIN procroot : NodeBacked(procroot, n)

\* C15 as stated: in the step that makes a node visible its variable's
\* enabled is false, and as long as the node stays, a step changes that
\* enabled only if it is a write on that node.
C15_OnlyWritesChangeEnabled ==
    [][ \A n \in DOMAIN dir' :
          LET v == dir'[n].data IN
          /\ n \notin DOMAIN dir => ~heap'[v].enabled
          /\ (n \in DOMAIN dir /\ dir[n].data = v /\ heap'[v].enabled # heap[v].enabled) =>
                (WriteStep /\ adm.node = n) ]_vars

\* The detach of rule r passes line 210-211 in this step.
RemoveStep(r) == rule[r].pc = "remove" /\ rule'[r].pc = "free"

\* The detach of rule r passes kfree (line 212) in this step.
FreeStep(r) == rule[r].pc = "free" /\ rule'[r].pc = "dunlock"

\* C16: after condition_net_exit no node is left under the root and the
\* root pointer is NULL, whatever was still referenced. A detach calls
\* remove_proc_entry only while the root exists, and then the node is there,
\* so no node is removed twice; a detach after teardown leaves the nodes
\* alone. Every kfree hits a variable that is allocated, off the list and
\* out of every other thread's hands, so none is freed twice. Once no rule
\* holds a handle and no attach or detach is running, the list is empty and
\* no variable is allocated: none is leaked.
C16_TeardownThenDetach ==
    /\ [](ns = "down" => (dir = << >> /\ ~proc_net_condition))
    /\ []((\A r \in Rules : rule[r].pc = "idle") =>
             (conditions_list = <<>> /\ FreeSlots(heap) = VarIds))
    /\ [][ \A r \in Rules :
             /\ RemoveStep(r) =>
                   LET n == heap[rule[r].var].name IN
                   IF proc_net_condition
                   THEN n \in DOMAIN dir /\ dir[n].data = rule[r].var
                        /\ n \notin DOMAIN dir'
                   ELSE dir' = dir
             /\ FreeStep(r) =>
                   LET v == rule[r].var IN
                   /\ heap[v].alloc /\ ~heap'[v].alloc
                   /\ heap[v].refcount = 0
                   /\ ~InList(v)
                   /\ \A q \in Rules \ {r} : rule[q].var # v /\ rule[q].condvar # v ]_vars

\* C16 witness: after teardown (no attach since: nothing under /proc) one
\* stale handle has been dropped to zero and is about to be freed, its node
\* long gone, while another stale handle is still attached.
C16_Witness ==
    /\ ns = "down"
    /\ procroot = << >>
    /\ \E r, q \in Rules :
          /\ rule[r].pc = "free" /\ heap[rule[r].var].alloc
          /\ rule[q].pc = "attached" /\ InList(rule[q].condvar)

\* Rule r is inside a call of condition_mt_check or condition_mt_destroy.
Executing(r) == rule[r].pc \notin { "idle", "attached" }

\* C17: whenever no attach or detach is executing the lock is free, a call
\* that has just returned (by whichever path) does not hold it, and under
\* fair scheduling every call that is executing returns.
C17_LockReleasedAndCallsReturn ==
    /\ []((\A r \in Rules : ~Executing(r)) => proc_lock = NULL)
    /\ [](ev.op \in { "check", "destroy" } => (proc_lock # ev.rule /\ ~Executing(ev.rule)))
    /\ \A r \in Rules : Executing(r) ~> ~Executing(r)

\* C17 witness: an attach has returned -ENOMEM and released the lock while
\* the other thread was waiting for it in mutex_lock.
C17_Witness ==
    /\ ev.op = "check" /\ ev.ret = "ENOMEM"
    /\ proc_lock = NULL
    /\ \E q \in Rules : q # ev.rule /\ rule[q].pc = "lock"

NodePerms(d, n) == << d[n].mode, d[n].uid, d[n].gid >>

\* The attach of rule r passes proc_set_user (line 189) in this step.
SetUserStep(r) == rule[r].pc = "init" /\ rule'[r].pc = "unlock"

\* C18 as stated: every node whose creating attach has finished carries the
\* mode, owner and group configured when the module was loaded.
C18_Original ==
    \A n \in DOMAIN dir :
        InList(dir[n].data) => NodePerms(dir, n) = << S_IRUGO + S_IWUSR, 0, 0 >>

\* What a step does to the permissions of the nodes of one directory: a new
\* node gets the mode the parameter holds now and belongs to root, the node
\* of the attach passing proc_set_user gets the owner and group the
\* parameters hold now, and every other node keeps mode, owner and group.
PermsStep(d, e) ==
    \A n \in DOMAIN e :
        IF n \notin DOMAIN d
        THEN NodePerms(e, n) = << condition_list_perms, 0, 0 >>
        ELSE IF \E r \in Rules : SetUserStep(r) /\ rule[r].name = n /\ HasNode(d, n, rule[r].var)
        THEN NodePerms(e, n) = << d[n].mode, condition_uid_perms, condition_gid_perms >>
        ELSE NodePerms(e, n) = NodePerms(d, n)

\* C18 as amended: a node carries the mode that condition_list_perms held
\* when it was created and the owner and group that the parameters held
\* when its creating attach passed proc_set_user; no later attach, detach or
\* write to a parameter changes the permissions of a node that exists.
C18_PermsFixedAtCreation ==
    [][ PermsStep(dir, dir') ]_vars

\* C18 witness: two nodes created under different parameters stand side by
\* side with different permissions, the lock free.
C18_Witness ==
    /\ proc_lock = NULL
    /\ \E n, m \in DOMAIN dir :
          /\ InList(dir[n].data) /\ InList(dir[m].data)
          /\ dir[n].mode # dir[m].mode
          /\ dir[n].uid # dir[m].uid

\* C19 as stated: sysrq_tg accepts, and hands the first byte to
\* handle_sysrq, exactly when a non-empty password is set and the bytes of
\* the payload after the first are the password; otherwise it drops and
\* handle_sysrq is not called.
C19_PasswordGate ==
    sysrq_ev.op = "sysrq_tg" =>
        IF /\ sysrq_password # <<>>
           /\ sysrq_ev.len >= 1
           /\ Tail(sysrq_ev.data) = sysrq_password
        THEN sysrq_ev.verdict = "NF_ACCEPT" /\ sysrq_ev.key = sysrq_ev.data[1]
        ELSE sysrq_ev.verdict = "NF_DROP" /\ sysrq_ev.key = "none"

====
